---- MODULE Spec2Model ----
(***************************************************************************)
(* Endpoint mapping and internal floating-IP allocation of the OpFlex OVS  *)
(* agent: class GBPOvsAgent of opflexagent/gbp_ovs_agent.py.               *)
(*                                                                         *)
(* mapping_to_file holds an unresolved merge (lines 241-251); the module   *)
(* follows the incoming side (lines 245-250), the only side that defines   *)
(* ips_ext, which line 257 reads.                                          *)
(*                                                                         *)
(* The agent is single-threaded.  A port event arrives with its arguments  *)
(* (one action per kind of event), the handler port_bound or port_unbound  *)
(* runs to its end in one action, and the agent goes back to its loop.     *)
(* Inside a handler the Python statements are operators on a record `a`    *)
(* that holds the agent's fields together with the locals of the running   *)
(* handler; a raised exception is a.exc, and every statement after it is   *)
(* skipped.                                                                *)
(***************************************************************************)
EXTENDS Integers, Sequences, FiniteSets, TLC

VARIABLES
    int_fip_pool,       \* self.int_fip_pool: IP version -> free addresses
    int_fip_alloc,      \* self.int_fip_alloc: IP version -> port -> segment -> address;
                        \* a port whose inner dict is empty is kept as a port without
                        \* key: _get_int_fips, the only reader, returns {} for both
    ext_seg_next_hop,   \* self.ext_seg_next_hop: segment -> ExtSegNextHopInfo
    es_port_dict,       \* self.es_port_dict: segment -> ports using it
    files,              \* the endpoint directory: key -> record ("<key>.ep")
    call                \* the port event the agent is handling: its arguments and,
                        \* once the handler has run, its outcome

vars == <<int_fip_pool, int_fip_alloc, ext_seg_next_hop, es_port_dict, files, call>>

-----------------------------------------------------------------------------
(* Python values *)

\* None where a string is expected
None == "None"

\* None where an address (netaddr.IPAddress) is expected
NoneAddr == -1

\* a key that a dict does not hold ('nat_epg_tenant' in fip)
Absent == "<absent>"

\* truth value of a string or None
Truthy(s) == s \notin {None, Absent, ""}

\* truth value of a netaddr.IPAddress or None: IPAddress.__nonzero__ is
\* "the numerical value is not zero"
TruthyIP(x) == x # NoneAddr /\ x # 0

\* {}
EmptyDict == [k \in {} |-> 0]

\* d.pop(k, default) as the dict that is left
DictPop(d, k) == [x \in (DOMAIN d) \ {k} |-> d[x]]

\* d.values()
DictValues(d) == {d[k] : k \in DOMAIN d}

\* a + "|" + b
PipeJoin(s, t) == s \o "|" \o t

IPVersions == {4, 6}

-----------------------------------------------------------------------------
(* Bounds and configuration *)

\* usable addresses of the configured v4 pool (the metadata address comes on top)
Pool4Size == 2

\* addresses of the configured v6 pool
Pool6Size == 1

METADATA_DEFAULT_IP == "169.254.169.254"

\* netaddr.IPAddress(s): the numerical value of an address string.  v4 values
\* are below V6Base, v6 values above it.
V6Base == 100

IPValue(s) ==
    CASE s = METADATA_DEFAULT_IP -> 2
      [] s = "10.0.0.1" -> 11
      [] s = "10.0.0.2" -> 12
      [] s = "fd00::1" -> V6Base + 11

\* netaddr.IPAddress(ip).version
IPAddressVersion(ip) == IF IPValue(ip) > V6Base THEN 6 ELSE 4

\* str(netaddr.IPAddress)
Str(x) == ToString(x)

\* kwargs['internal_floating_ip_pool'] as an IPSet; it contains the metadata address
internal_floating_ip_pool == 1..(Pool4Size + 1)

\* kwargs['internal_floating_ip6_pool'] as an IPSet
internal_floating_ip6_pool == (V6Base + 1)..(V6Base + Pool6Size)

\* kwargs['opflex_networks']: the physical networks the agent manages
opflex_networks == {"physnet1"}

\* self.supported_pt_network_types
supported_pt_network_types == {"opflex"}

\* n_constants.DEVICE_OWNER_ROUTER_INTF, DEVICE_OWNER_DHCP
DEVICE_OWNER_ROUTER_INTF == "network:router_interface"
DEVICE_OWNER_DHCP == "network:dhcp"

\* ExtSegNextHopInfo(es_name) after _load_es_next_hop_info: "s1" has a v4
\* range and gateway, "s2" a v4 and a v6 pair, "s3" a range without gateway.
ExtSegNextHopInfo(es_name) ==
    [es_name |-> es_name,
     ip_start |-> CASE es_name = "s1" -> 201 [] es_name = "s2" -> 211 [] OTHER -> 221,
     ip_end |-> CASE es_name = "s1" -> 202 [] OTHER -> NoneAddr,
     ip_gateway |-> CASE es_name = "s1" -> "203/24" [] es_name = "s2" -> "213/24" [] OTHER -> None,
     ip6_start |-> CASE es_name = "s2" -> V6Base + 211 [] OTHER -> NoneAddr,
     ip6_end |-> NoneAddr,
     ip6_gateway |-> CASE es_name = "s2" -> "313/64" [] OTHER -> None,
     next_hop_iface |-> None,
     next_hop_mac |-> None]

\* kwargs['external_segment']: the configured segments
ConfiguredSegments == {"s1", "s2", "s3"}

\* ExtSegNextHopInfo.is_valid
is_valid(nh) ==
    \/ (TruthyIP(nh.ip_start) /\ Truthy(nh.ip_gateway))
    \/ (TruthyIP(nh.ip6_start) /\ Truthy(nh.ip6_gateway))

\* the ovs VifPort of a port id
VifPort(p) == [vif_id |-> p, port_name |-> "tap" \o p, vif_mac |-> "fa:16:3e:" \o p]

-----------------------------------------------------------------------------
(* The agent's fields and the locals of a running handler *)

AgentState ==
    [int_fip_pool |-> int_fip_pool,
     int_fip_alloc |-> int_fip_alloc,
     ext_seg_next_hop |-> ext_seg_next_hop,
     es_port_dict |-> es_port_dict,
     files |-> files,
     op |-> "none",             \* the operation the handler dispatched to
     exc |-> "none",            \* the exception that is propagating
     ret |-> NoneAddr,          \* the value the last call returned
     snat |-> EmptyDict,        \* segment -> the SNAT collaborator calls made for it
     mapping |-> <<>>,          \* mapping_dict['ip-address-mapping']
     es_using_int_fip |-> [v \in IPVersions |-> {}],
     old_es |-> {},
     new_es |-> {}]

\* one more SNAT collaborator call for segment es
SnatLog(a, es, what) ==
    [a EXCEPT !.snat = (es :> Append(IF es \in DOMAIN @ THEN @[es] ELSE <<>>, what)) @@ @]

-----------------------------------------------------------------------------
(* Address pool: lines 399-421 *)

_get_int_fips(a, ip_ver, port_id) ==
    IF port_id \in DOMAIN a.int_fip_alloc[ip_ver]
    THEN a.int_fip_alloc[ip_ver][port_id]
    ELSE EmptyDict

_get_es_for_port(a, port_id) ==
    (DOMAIN _get_int_fips(a, 4, port_id)) \cup (DOMAIN _get_int_fips(a, 6, port_id))

\* IPSet.__iter__().next(): an IPSet iterates its addresses in ascending order
IPSetFirst(s) == CHOOSE x \in s : \A y \in s : x <= y

\* _alloc_int_fip without line 410: the address stays in the free set
_alloc_int_fip_keeps_free(a, ip_ver, port_id, es) ==
    IF a.int_fip_pool[ip_ver] = {}
    THEN [a EXCEPT !.exc = "StopIteration"]
    ELSE LET fip == IPSetFirst(a.int_fip_pool[ip_ver])
             inner == _get_int_fips(a, ip_ver, port_id)
         IN  [a EXCEPT !.int_fip_alloc[ip_ver] = (port_id :> ((es :> fip) @@ inner)) @@ @,
                       !.ret = fip]

\* next() of the iterator of an empty IPSet raises StopIteration
_alloc_int_fip(a, ip_ver, port_id, es) ==
    IF a.int_fip_pool[ip_ver] = {}
    THEN [a EXCEPT !.exc = "StopIteration"]
    ELSE LET fip == IPSetFirst(a.int_fip_pool[ip_ver])
             inner == _get_int_fips(a, ip_ver, port_id)
         IN  [a EXCEPT !.int_fip_pool[ip_ver] = @ \ {fip},
                       !.int_fip_alloc[ip_ver] = (port_id :> ((es :> fip) @@ inner)) @@ @,
                       !.ret = fip]

\* _release_int_fip without lines 420-421: the addresses do not go back to the free set
_release_int_fip_forgets(a, ip_ver, port_id, es) ==
    IF Truthy(es)
    THEN [a EXCEPT !.int_fip_alloc[ip_ver] =
                       IF port_id \notin DOMAIN @
                       THEN @
                       ELSE IF DictPop(_get_int_fips(a, ip_ver, port_id), es) = EmptyDict
                       THEN DictPop(@, port_id)
                       ELSE [@ EXCEPT ![port_id] =
                                DictPop(_get_int_fips(a, ip_ver, port_id), es)]]
    ELSE [a EXCEPT !.int_fip_alloc[ip_ver] = DictPop(@, port_id)]

_release_int_fip(a, ip_ver, port_id, es) ==
    LET inner == _get_int_fips(a, ip_ver, port_id)
    IN  IF Truthy(es)
        THEN LET fips == IF es \in DOMAIN inner THEN inner[es] ELSE NoneAddr
                 lst == IF TruthyIP(fips) THEN {fips} ELSE {}
             IN  [a EXCEPT !.int_fip_alloc[ip_ver] =
                               IF port_id \notin DOMAIN @
                               THEN @
                               ELSE IF DictPop(inner, es) = EmptyDict
                               THEN DictPop(@, port_id)
                               ELSE [@ EXCEPT ![port_id] = DictPop(inner, es)],
                           !.int_fip_pool[ip_ver] = @ \cup lst]
        ELSE [a EXCEPT !.int_fip_alloc[ip_ver] = DictPop(@, port_id),
                       !.int_fip_pool[ip_ver] = @ \cup DictValues(inner)]

-----------------------------------------------------------------------------
(* Endpoint records: lines 339-350 *)

\* what a failed dump leaves of a record: open(filename, 'w') has truncated it
TruncatedRecord ==
    [policy_space_name |-> "<truncated>", endpoint_group_name |-> "<truncated>",
     interface_name |-> "<truncated>", ip |-> <<>>, mac |-> "<truncated>",
     uuid |-> "<truncated>", promiscuous_mode |-> FALSE, attributes |-> Absent,
     ip_address_mapping |-> <<>>]

\* how is "ok", or the step that raises IOError: "open" (the record is as it
\* was) or "dump" (the record is truncated)
_write_endpoint_file(a, port_id, mapping_dict, how) ==
    CASE how = "ok" ->
           [a EXCEPT !.files = (port_id :> mapping_dict) @@ @]
      [] how = "open" ->
           [a EXCEPT !.exc = "IOError"]
      [] OTHER ->
           [a EXCEPT !.files = (port_id :> TruncatedRecord) @@ @,
                     !.exc = "IOError"]

\* os.remove of a record the agent wrote in its own directory removes it;
\* OSError (no such record) is logged
_delete_endpoint_file(a, port_id) ==
    [a EXCEPT !.files = DictPop(@, port_id)]

\* uuidutils.generate_uuid(): a random uuid; seed is the draw of the handler
generate_uuid(seed) == "uuid-" \o ToString(seed)

-----------------------------------------------------------------------------
(* The SNAT collaborator, self.snat_iptables (opflexagent/snat_iptables_manager.py). *)
(* f holds what the environment answers during one handler:                  *)
(*   f.setup_fail    the rules (indices of ip_mapping) at which a call of    *)
(*                   setup_snat_for_es raises                                *)
(*   f.cleanup_fail  the segments for which cleanup_snat_for_es raises       *)
(*   f.mac           the MAC of a next-hop interface that a setup creates    *)
(*   f.host_write, f.port_write   "ok", or the step of the write that raises *)
(*   f.uuid_seed     the draw of the uuid generator                          *)

\* setup_snat_for_es(es_name, ...): raises, or returns (interface, MAC)
setup_snat_for_es(es_name, f, i) ==
    [raised |-> i \in f.setup_fail, next_hop_iface |-> "of-" \o es_name, next_hop_mac |-> f.mac]

\* cleanup_snat_for_es(es): TRUE when it raises
cleanup_snat_for_es(es, f) == es \in f.cleanup_fail

-----------------------------------------------------------------------------
(* Next hop of an external segment: lines 423-455 *)

\* netaddr.iter_iprange(s, e)
iter_iprange(s, e) == [k \in 1..(e - s + 1) |-> s + k - 1]

\* lines 443-446: the addresses of the ranges of a segment
host_ips(nh) ==
    (IF TruthyIP(nh.ip_start)
     THEN iter_iprange(nh.ip_start, IF TruthyIP(nh.ip_end) THEN nh.ip_end ELSE nh.ip_start)
     ELSE <<>>)
    \o (IF TruthyIP(nh.ip6_start)
        THEN iter_iprange(nh.ip6_start, IF TruthyIP(nh.ip6_end) THEN nh.ip6_end ELSE nh.ip6_start)
        ELSE <<>>)

\* nh is self.ext_seg_next_hop[es_name]
_create_host_endpoint_file(a, ipm, es_name, f) ==
    _write_endpoint_file(a, es_name,
        [policy_space_name |-> ipm.nat_epg_tenant,
         endpoint_group_name |-> ipm.nat_epg_name,
         interface_name |-> a.ext_seg_next_hop[es_name].next_hop_iface,
         ip |-> [k \in DOMAIN host_ips(a.ext_seg_next_hop[es_name]) |->
                    Str(host_ips(a.ext_seg_next_hop[es_name])[k])],
         mac |-> a.ext_seg_next_hop[es_name].next_hop_mac,
         uuid |-> generate_uuid(f.uuid_seed),
         promiscuous_mode |-> TRUE,
         attributes |-> Absent,
         ip_address_mapping |-> <<>>],
        f.host_write)

\* lines 430-438: the call of setup_snat_for_es; an exception is logged and
\* leaves the next hop as it was.  i is the index of the rule in ip_mapping
snat_setup(a, es_name, f, i) ==
    IF setup_snat_for_es(es_name, f, i).raised
    THEN SnatLog(a, es_name, "setup_failed")
    ELSE SnatLog([a EXCEPT !.ext_seg_next_hop[es_name].next_hop_iface =
                               setup_snat_for_es(es_name, f, i).next_hop_iface,
                           !.ext_seg_next_hop[es_name].next_hop_mac =
                               setup_snat_for_es(es_name, f, i).next_hop_mac],
                 es_name, "setup")

\* line 440: return (nh.next_hop_iface, nh.next_hop_mac)
next_hop_result(a, es_name) ==
    IF a.exc # "none"
    THEN a
    ELSE [a EXCEPT !.ret = <<a.ext_seg_next_hop[es_name].next_hop_iface,
                             a.ext_seg_next_hop[es_name].next_hop_mac>>]

\* _get_next_hop_info_for_es without line 429: the next hop is set up at every call
next_hop_always_setup(a, ipm, f, i) ==
    IF ipm.external_segment_name \notin DOMAIN a.ext_seg_next_hop
    THEN [a EXCEPT !.ret = <<None, None>>]
    ELSE IF ~is_valid(a.ext_seg_next_hop[ipm.external_segment_name])
    THEN [a EXCEPT !.ret = <<None, None>>]
    ELSE next_hop_result(
             _create_host_endpoint_file(snat_setup(a, ipm.external_segment_name, f, i),
                                        ipm, ipm.external_segment_name, f),
             ipm.external_segment_name)

_get_next_hop_info_for_es(a, ipm, f, i) ==
    IF ipm.external_segment_name \notin DOMAIN a.ext_seg_next_hop
    THEN [a EXCEPT !.ret = <<None, None>>]
    ELSE IF ~is_valid(a.ext_seg_next_hop[ipm.external_segment_name])
    THEN [a EXCEPT !.ret = <<None, None>>]
    ELSE IF ~Truthy(a.ext_seg_next_hop[ipm.external_segment_name].next_hop_iface)
    THEN next_hop_result(
             _create_host_endpoint_file(snat_setup(a, ipm.external_segment_name, f, i),
                                        ipm, ipm.external_segment_name, f),
             ipm.external_segment_name)
    ELSE next_hop_result(a, ipm.external_segment_name)

-----------------------------------------------------------------------------
(* Segment usage index: lines 457-478 *)

_associate_port_with_es(a, port_id, ess) ==
    [a EXCEPT !.es_port_dict =
        [es \in (DOMAIN @) \cup ess |->
            (IF es \in DOMAIN @ THEN @[es] ELSE {}) \cup (IF es \in ess THEN {port_id} ELSE {})]]

\* lines 468-478 without the try of line 473: a failing cleanup_snat_for_es propagates
teardown_es_raises(a, es, f) ==
    IF cleanup_snat_for_es(es, f)
    THEN [SnatLog(_delete_endpoint_file(
                      [a EXCEPT !.es_port_dict = DictPop(@, es),
                                !.ext_seg_next_hop =
                                    IF es \in DOMAIN @
                                    THEN [@ EXCEPT ![es].next_hop_iface = None,
                                                   ![es].next_hop_mac = None]
                                    ELSE @],
                      es),
                  es, "cleanup_failed") EXCEPT !.exc = "Exception"]
    ELSE SnatLog(_delete_endpoint_file(
                     [a EXCEPT !.es_port_dict = DictPop(@, es),
                               !.ext_seg_next_hop =
                                   IF es \in DOMAIN @
                                   THEN [@ EXCEPT ![es].next_hop_iface = None,
                                                  ![es].next_hop_mac = None]
                                   ELSE @],
                     es),
                 es, "cleanup")

\* lines 468-478 without lines 469-471: the next hop of the segment stays resolved
teardown_es_keeps_next_hop(a, es, f) ==
    SnatLog(_delete_endpoint_file([a EXCEPT !.es_port_dict = DictPop(@, es)], es),
            es, IF cleanup_snat_for_es(es, f) THEN "cleanup_failed" ELSE "cleanup")

\* lines 468-478: the segment has lost its last port
teardown_es(a, es, f) ==
    SnatLog(_delete_endpoint_file(
                [a EXCEPT !.es_port_dict = DictPop(@, es),
                          !.ext_seg_next_hop =
                              IF es \in DOMAIN @
                              THEN [@ EXCEPT ![es].next_hop_iface = None,
                                             ![es].next_hop_mac = None]
                              ELSE @],
                es),
            es, IF cleanup_snat_for_es(es, f) THEN "cleanup_failed" ELSE "cleanup")

\* the loop body without lines 466-467: the segment is torn down although
\* other ports use it
dissociate_es_eager(a, port_id, es, f) ==
    IF es \notin DOMAIN a.es_port_dict
    THEN a
    ELSE teardown_es(a, es, f)

\* the body of the loop of _dissociate_port_from_es for one segment
dissociate_es(a, port_id, es, f) ==
    IF es \notin DOMAIN a.es_port_dict
    THEN a
    ELSE IF a.es_port_dict[es] \ {port_id} # {}
    THEN [a EXCEPT !.es_port_dict[es] = @ \ {port_id}]
    ELSE teardown_es(a, es, f)

RECURSIVE _dissociate_port_from_es(_, _, _, _)
_dissociate_port_from_es(a, port_id, ess, f) ==
    IF ess = {}
    THEN a
    ELSE _dissociate_port_from_es(dissociate_es(a, port_id, CHOOSE e \in ess : TRUE, f),
                                  port_id, ess \ {CHOOSE e \in ess : TRUE}, f)

-----------------------------------------------------------------------------
(* _fill_ip_mapping_info: lines 352-397 *)

\* lines 353-362: the entry of one floating_ip record
floating_ip_entry(gbp_details, fip) ==
    [uuid |-> fip.id,
     mapped_ip |-> fip.fixed_ip_address,
     floating_ip |-> fip.floating_ip_address,
     policy_space_name |-> IF fip.nat_epg_tenant # Absent THEN fip.nat_epg_tenant ELSE Absent,
     endpoint_group_name |-> IF fip.nat_epg_name # Absent
                             THEN PipeJoin(gbp_details.app_profile_name, fip.nat_epg_name)
                             ELSE Absent,
     next_hop_if |-> Absent,
     next_hop_mac |-> Absent]

\* lines 353-364: the entries of the floating_ip records, and the empty
\* es_using_int_fip
floating_ip_loop(a, gbp_details) ==
    [a EXCEPT !.mapping = [k \in DOMAIN gbp_details.floating_ip |->
                              floating_ip_entry(gbp_details, gbp_details.floating_ip[k])],
              !.es_using_int_fip = [v \in IPVersions |-> {}]]

\* line 379 without line 378: a new address for every fixed IP
alloc_per_fixed_ip(a, ip_ver, port_id, es) == _alloc_int_fip(a, ip_ver, port_id, es)

\* lines 378-379: the address (port, segment) holds, or a new one
get_or_alloc_int_fip(a, ip_ver, port_id, es) ==
    IF es \in DOMAIN _get_int_fips(a, ip_ver, port_id)
       /\ TruthyIP(_get_int_fips(a, ip_ver, port_id)[es])
    THEN [a EXCEPT !.ret = _get_int_fips(a, ip_ver, port_id)[es]]
    ELSE _alloc_int_fip(a, ip_ver, port_id, es)

\* lines 380-388: the entry of one fixed IP; a.ret is fip, c holds the rule's locals
append_ip_map(a, c, ip) ==
    IF a.exc # "none"
    THEN a
    ELSE [a EXCEPT !.es_using_int_fip[IPAddressVersion(ip)] = @ \cup {c.es},
                   !.mapping = Append(@, [uuid |-> generate_uuid(c.uuid_seed),
                                          mapped_ip |-> ip,
                                          floating_ip |-> Str(a.ret),
                                          policy_space_name |-> c.nat_epg_tenant,
                                          endpoint_group_name |-> c.epg,
                                          next_hop_if |-> c.next_hop_if,
                                          next_hop_mac |-> c.next_hop_mac])]

\* the loop of line 376 leaving after the first fixed IP
fixed_ip_loop_first(a, c, k) ==
    IF a.exc # "none" \/ c.ips = <<>>
    THEN a
    ELSE append_ip_map(get_or_alloc_int_fip(a, IPAddressVersion(c.ips[1]), c.port_id, c.es),
                       c, c.ips[1])

\* lines 376-388: the loop over the fixed IPs for one rule, from the k-th on
RECURSIVE fixed_ip_loop(_, _, _)
fixed_ip_loop(a, c, k) ==
    IF a.exc # "none" \/ k > Len(c.ips)
    THEN a
    ELSE fixed_ip_loop(
             append_ip_map(get_or_alloc_int_fip(a, IPAddressVersion(c.ips[k]), c.port_id, c.es),
                           c, c.ips[k]),
             c, k + 1)

\* lines 374-388: a is the agent after _get_next_hop_info_for_es, a.ret its result
use_next_hop(a, port_id, ipm, epg, ips, f) ==
    IF a.exc # "none"
    THEN a
    ELSE IF ~Truthy(a.ret[1]) \/ ~Truthy(a.ret[2])
    THEN a
    ELSE fixed_ip_loop(a, [port_id |-> port_id, es |-> ipm.external_segment_name,
                           nat_epg_tenant |-> ipm.nat_epg_tenant, epg |-> epg, ips |-> ips,
                           next_hop_if |-> a.ret[1], next_hop_mac |-> a.ret[2],
                           uuid_seed |-> f.uuid_seed], 1)

\* lines 366-388: the body of the loop for the rule ipm, the i-th of ip_mapping;
\* line 372 stores epg in ipm['nat_epg_name']
ip_mapping_rule(a, port_id, gbp_details, ips, f, ipm, i) ==
    IF \/ ips = <<>>
       \/ ~Truthy(ipm.external_segment_name)
       \/ ~Truthy(ipm.nat_epg_tenant)
       \/ ~Truthy(ipm.nat_epg_name)
    THEN a
    ELSE use_next_hop(
             _get_next_hop_info_for_es(
                 a,
                 [ipm EXCEPT !.nat_epg_name = PipeJoin(gbp_details.app_profile_name, @)],
                 f, i),
             port_id, ipm, PipeJoin(gbp_details.app_profile_name, ipm.nat_epg_name), ips, f)

\* lines 365-388: the loop over gbp_details['ip_mapping'], from rule i on
RECURSIVE ip_mapping_loop(_, _, _, _, _, _)
ip_mapping_loop(a, port_id, gbp_details, ips, f, i) ==
    IF a.exc # "none" \/ i > Len(gbp_details.ip_mapping)
    THEN a
    ELSE ip_mapping_loop(
             ip_mapping_rule(a, port_id, gbp_details, ips, f, gbp_details.ip_mapping[i], i),
             port_id, gbp_details, ips, f, i + 1)

\* lines 389-390: old_es and new_es
old_and_new_es(a, port_id) ==
    [a EXCEPT !.old_es = _get_es_for_port(a, port_id),
              !.new_es = a.es_using_int_fip[4] \cup a.es_using_int_fip[6]]

\* lines 395-397 for one IP version: release what this pass did not use
RECURSIVE release_unused(_, _, _, _)
release_unused(a, port_id, ip_ver, keys) ==
    IF keys = {}
    THEN a
    ELSE release_unused(
             IF (CHOOSE e \in keys : TRUE) \notin a.es_using_int_fip[ip_ver]
             THEN _release_int_fip(a, ip_ver, port_id, CHOOSE e \in keys : TRUE)
             ELSE a,
             port_id, ip_ver, keys \ {CHOOSE e \in keys : TRUE})

\* lines 394-397 testing "es not in new_es": an address is kept when the
\* segment is used in any IP version
release_loop_any_version(a, port_id, ip_ver) ==
    release_unused([a EXCEPT !.es_using_int_fip = [v \in IPVersions |-> a.new_es]],
                   port_id, ip_ver, DOMAIN _get_int_fips(a, ip_ver, port_id))

\* lines 394-397 for one IP version
release_loop(a, port_id, ip_ver) ==
    release_unused(a, port_id, ip_ver, DOMAIN _get_int_fips(a, ip_ver, port_id))

\* lines 391-397; a holds old_es and new_es
update_es(a, port_id, f) ==
    release_loop(
        release_loop(
            _dissociate_port_from_es(_associate_port_with_es(a, port_id, a.new_es),
                                     port_id, a.old_es \ a.new_es, f),
            port_id, 4),
        port_id, 6)

\* lines 389-397; an exception of the loops above skips them
after_ip_mapping(a, port_id, f) ==
    IF a.exc # "none"
    THEN a
    ELSE update_es(old_and_new_es(a, port_id), port_id, f)

_fill_ip_mapping_info(a, port_id, gbp_details, ips, f) ==
    after_ip_mapping(
        ip_mapping_loop(floating_ip_loop(a, gbp_details), port_id, gbp_details, ips, f, 1),
        port_id, f)

-----------------------------------------------------------------------------
(* mapping_to_file and mapping_cleanup: lines 236-271 *)

\* lines 252-262 with the 'ip-address-mapping' that _fill_ip_mapping_info adds
mapping_dict(port, mapping, ips, device_owner, ip_address_mapping) ==
    [policy_space_name |-> mapping.ptg_tenant,
     endpoint_group_name |-> PipeJoin(mapping.app_profile_name, mapping.endpoint_group_name),
     interface_name |-> port.port_name,
     ip |-> ips \o (IF device_owner = DEVICE_OWNER_DHCP THEN <<METADATA_DEFAULT_IP>> ELSE <<>>),
     mac |-> port.vif_mac,
     uuid |-> port.vif_id,
     promiscuous_mode |-> mapping.promiscuous_mode,
     attributes |-> IF mapping.vm_name # Absent THEN mapping.vm_name ELSE Absent,
     ip_address_mapping |-> ip_address_mapping]

\* line 264; a is the agent after _fill_ip_mapping_info
write_mapping_dict(a, port, mapping, ips, device_owner, f) ==
    IF a.exc # "none"
    THEN a
    ELSE _write_endpoint_file(a, port.vif_id,
                              mapping_dict(port, mapping, ips, device_owner, a.mapping),
                              f.port_write)

\* mapping_to_file without lines 245-247
mapping_to_file_no_skip(a, port, mapping, ips, device_owner, f) ==
    write_mapping_dict(_fill_ip_mapping_info(a, port.vif_id, mapping, ips, f),
                       port, mapping, ips, device_owner, f)

mapping_to_file(a, port, mapping, ips, device_owner, f) ==
    IF device_owner = DEVICE_OWNER_ROUTER_INTF
    THEN a
    ELSE write_mapping_dict(_fill_ip_mapping_info(a, port.vif_id, mapping, ips, f),
                            port, mapping, ips, device_owner, f)

\* mapping_cleanup without lines 268-269
dissociate_port_skipped(a, vif_id, f) == a

\* lines 268-269
dissociate_port(a, vif_id, f) ==
    _dissociate_port_from_es([a EXCEPT !.old_es = _get_es_for_port(a, vif_id)],
                             vif_id, _get_es_for_port(a, vif_id), f)

\* mapping_cleanup with lines 270-271 before lines 268-269: the addresses are
\* released before the segments of the port are read
mapping_cleanup_release_first(a, vif_id, f) ==
    dissociate_port(
        _release_int_fip(
            _release_int_fip(_delete_endpoint_file(a, vif_id), 4, vif_id, None),
            6, vif_id, None),
        vif_id, f)

mapping_cleanup(a, vif_id, f) ==
    _release_int_fip(
        _release_int_fip(dissociate_port(_delete_endpoint_file(a, vif_id), vif_id, f),
                         4, vif_id, None),
        6, vif_id, None)

-----------------------------------------------------------------------------
(* The events: port_bound and port_unbound, lines 197-234 *)

\* port.gbp_details == {}: the port has no policy binding
EmptyDetails ==
    [ptg_tenant |-> Absent, app_profile_name |-> Absent, endpoint_group_name |-> Absent,
     promiscuous_mode |-> FALSE, vm_name |-> Absent, floating_ip |-> <<>>, ip_mapping |-> <<>>]

\* the agent's fields after a handler
Commit(a) ==
    /\ int_fip_pool' = a.int_fip_pool
    /\ int_fip_alloc' = a.int_fip_alloc
    /\ ext_seg_next_hop' = a.ext_seg_next_hop
    /\ es_port_dict' = a.es_port_dict
    /\ files' = a.files

\* fixed_ips is the list [x['ip_address'] for x in fixed_ips]; hybrid_mode is
\* off, so the parent's port_bound is not called
port_bound(a, p, gbp_details, network_type, physical_network, fixed_ips, device_owner, f) ==
    LET port == VifPort(p)
    IN  IF gbp_details = EmptyDetails
        THEN mapping_cleanup([a EXCEPT !.op = "mapping_cleanup"], port.vif_id, f)
        ELSE IF network_type \in supported_pt_network_types
        THEN IF physical_network \in opflex_networks
             THEN mapping_to_file([a EXCEPT !.op = "mapping_to_file"], port, gbp_details,
                                  fixed_ips, device_owner, f)
             ELSE mapping_cleanup([a EXCEPT !.op = "mapping_cleanup"], port.vif_id, f)
        ELSE a

port_unbound(a, vif_id, f) ==
    mapping_cleanup([a EXCEPT !.op = "mapping_cleanup"], vif_id, f)

-----
(* Inputs *)

Rule(es, tenant, name) ==
    [external_segment_name |-> es, nat_epg_tenant |-> tenant, nat_epg_name |-> name]

\* a policy binding with the floating_ip records fl and the ip_mapping rules
Details(fl, rules) ==
    [ptg_tenant |-> "tenant", app_profile_name |-> "ap", endpoint_group_name |-> "epg",
     promiscuous_mode |-> FALSE, vm_name |-> Absent, floating_ip |-> fl, ip_mapping |-> rules]

NoFault ==
    [setup_fail |-> {}, cleanup_fail |-> {}, mac |-> "aa:01", host_write |-> "ok",
     port_write |-> "ok", uuid_seed |-> 1]

\* what the environment may answer during one handler: nothing fails, or one
\* kind of failure
Faults ==
    {NoFault,
     [NoFault EXCEPT !.setup_fail = {1}],
     [NoFault EXCEPT !.setup_fail = {1, 2}],
     [NoFault EXCEPT !.cleanup_fail = ConfiguredSegments],
     [NoFault EXCEPT !.host_write = "dump"],
     [NoFault EXCEPT !.port_write = "dump"]}

PortIds == {"p1", "p2"}

\* the fixed IPs of a port: "p1" has a v4 address, "p2" is dual-stack
FixedIps(p) == IF p = "p1" THEN <<"10.0.0.1">> ELSE <<"10.0.0.1", "fd00::1">>

\* ip_mapping lists over the rules for the segments "s1" and "s2"
RuleLists ==
    {<<>>,
     <<Rule("s1", "nat-t", "nat-g")>>,
     <<Rule("s2", "nat-t", "nat-g")>>,
     <<Rule("s1", "nat-t", "nat-g"), Rule("s2", "nat-t", "nat-g")>>}

\* the agent is in its loop, no event is being handled
NoCall == [state |-> "idle"]

Init ==
    /\ int_fip_pool = [v \in IPVersions |->
                          IF v = 4
                          THEN internal_floating_ip_pool \ {IPValue(METADATA_DEFAULT_IP)}
                          ELSE internal_floating_ip6_pool]
    /\ int_fip_alloc = [v \in IPVersions |-> EmptyDict]
    /\ ext_seg_next_hop = [es \in ConfiguredSegments |-> ExtSegNextHopInfo(es)]
    /\ es_port_dict = EmptyDict
    /\ files = EmptyDict
    /\ call = NoCall

\* the agent's fields
core == <<int_fip_pool, int_fip_alloc, ext_seg_next_hop, es_port_dict, files>>

\* the addresses of a port, per IP version, before its handler has run
NotHeld == [v \in IPVersions |-> EmptyDict]

\* the outcome of a handler that has not run
NoOutcome == [op |-> "none", exc |-> "none", snat |-> EmptyDict]

\* a port_bound event arrives
PortBoundEvent(p, gbp_details, network_type, physical_network, fixed_ips, device_owner, f) ==
    /\ call.state = "idle"
    /\ call' = [state |-> "pending", event |-> "port_bound", port |-> p,
                gbp_details |-> gbp_details, network_type |-> network_type,
                physical_network |-> physical_network, fixed_ips |-> fixed_ips,
                device_owner |-> device_owner, f |-> f, again |-> FALSE,
                first |-> NoOutcome, op |-> "none", exc |-> "none", snat |-> EmptyDict,
                held |-> NotHeld]
    /\ UNCHANGED core

\* a port_unbound event arrives
PortUnboundEvent(p, f) ==
    /\ call.state = "idle"
    /\ call' = [state |-> "pending", event |-> "port_unbound", port |-> p,
                gbp_details |-> EmptyDetails, network_type |-> None,
                physical_network |-> None, fixed_ips |-> <<>>,
                device_owner |-> None, f |-> f, again |-> FALSE,
                first |-> NoOutcome, op |-> "none", exc |-> "none", snat |-> EmptyDict,
                held |-> NotHeld]
    /\ UNCHANGED core

\* the outcome of a handler, kept with the event; held is what the port of
\* the event held in the allocation table when the handler started
Outcome(a) ==
    [call EXCEPT !.state = "done", !.op = a.op, !.exc = a.exc, !.snat = a.snat,
                 !.held = [v \in IPVersions |-> _get_int_fips(AgentState, v, call.port)]]

\* a is the agent at the end of a handler
Handled(a) == Commit(a) /\ call' = Outcome(a)

Reconcile ==
    \E p \in PortIds, rules \in RuleLists, f \in Faults :
        PortBoundEvent(p, Details(<<>>, rules), "opflex", "physnet1", FixedIps(p),
                       "compute:nova", f)

ReconcileOwner ==
    \E p \in PortIds, owner \in {DEVICE_OWNER_ROUTER_INTF, DEVICE_OWNER_DHCP} :
        PortBoundEvent(p, Details(<<>>, <<Rule("s1", "nat-t", "nat-g")>>), "opflex",
                       "physnet1", FixedIps(p), owner, NoFault)

BoundElsewhere ==
    \E p \in PortIds, net \in {<<"opflex", "physnet2">>, <<"vlan", "physnet1">>} :
        PortBoundEvent(p, Details(<<>>, <<>>), net[1], net[2], FixedIps(p), "compute:nova",
                       NoFault)

BoundWithoutDetails ==
    \E p \in PortIds :
        PortBoundEvent(p, EmptyDetails, "opflex", "physnet1", FixedIps(p), "compute:nova",
                       NoFault)

Unbound ==
    \E p \in PortIds, f \in {NoFault, [NoFault EXCEPT !.cleanup_fail = ConfiguredSegments]} :
        PortUnboundEvent(p, f)

\* port_bound runs to its end
HandlePortBound ==
    /\ call.state = "pending"
    /\ call.event = "port_bound"
    /\ Handled(port_bound(AgentState, call.port, call.gbp_details, call.network_type,
                           call.physical_network, call.fixed_ips, call.device_owner, call.f))

\* port_unbound runs to its end
HandlePortUnbound ==
    /\ call.state = "pending"
    /\ call.event = "port_unbound"
    /\ Handled(port_unbound(AgentState, call.port, call.f))

\* the agent is back in its loop
Return ==
    /\ call.state = "done"
    /\ call' = NoCall
    /\ UNCHANGED core

Next ==
    \/ Reconcile
    \/ ReconcileOwner
    \/ BoundElsewhere
    \/ BoundWithoutDetails
    \/ Unbound
    \/ HandlePortBound
    \/ HandlePortUnbound
    \/ Return

Spec == Init /\ [][Next]_vars

-----------------------------------------------------------------------------
(* The events of one port in detail: port "p1" alone, with every shape of    *)
(* binding, and with the resynchronisation of the agent.                     *)

\* the ip_mapping rules: for the configured segments "s1" and "s2", for "s3",
\* whose next hop is not valid, for "s9", which is not configured, and rules
\* that miss a field
R1 == Rule("s1", "nat-t", "nat-g")
R2 == Rule("s2", "nat-t", "nat-g")
R3 == Rule("s3", "nat-t", "nat-g")
R9 == Rule("s9", "nat-t", "nat-g")
NoSegment == Rule(Absent, "nat-t", "nat-g")
NoTenant == Rule("s1", Absent, "nat-g")
NoName == Rule("s2", "nat-t", "")

ArgsRuleLists ==
    {<<>>, <<R1>>, <<R2>>, <<R1, R2>>, <<R1, R1>>, <<R3, R1>>, <<R9>>,
     <<NoSegment>>, <<NoTenant, R2>>, <<R1, NoName>>}

ArgsFixedIpLists ==
    {<<>>, <<"10.0.0.1">>, <<"10.0.0.1", "10.0.0.2">>, <<"10.0.0.1", "fd00::1">>}

\* a floating_ip record of gbp_details, with and without the NAT group keys
FloatingIp(id, tenant, name) ==
    [id |-> id, fixed_ip_address |-> "10.0.0.1", floating_ip_address |-> "192.0.2." \o id,
     nat_epg_tenant |-> tenant, nat_epg_name |-> name]

ArgsFloatingIpLists ==
    {<<FloatingIp("1", "nat-t", "nat-g")>>,
     <<FloatingIp("1", "nat-t", "nat-g"), FloatingIp("2", Absent, Absent)>>}

ArgsCall(fl, rules, ips, owner, f) ==
    [fl |-> fl, rules |-> rules, ips |-> ips, owner |-> owner, f |-> f]

\* the port_bound events of "p1": every rule list with every fixed-IP list;
\* bindings with floating_ip records; failures; the other device owners
ArgsCalls ==
    {ArgsCall(<<>>, r, i, "compute:nova", NoFault) :
        r \in ArgsRuleLists, i \in ArgsFixedIpLists}
    \cup {ArgsCall(fl, r, i, "compute:nova", NoFault) :
             fl \in ArgsFloatingIpLists, r \in {<<>>, <<R1>>, <<NoTenant, R2>>},
             i \in {<<>>, <<"10.0.0.1", "10.0.0.2">>}}
    \cup {ArgsCall(<<>>, r, <<"10.0.0.1", "fd00::1">>, "compute:nova", f) :
             r \in {<<R1>>, <<R1, R2>>, <<R1, R1>>},
             f \in {[NoFault EXCEPT !.setup_fail = {1}],
                    [NoFault EXCEPT !.setup_fail = {1, 2}],
                    [NoFault EXCEPT !.host_write = "dump"],
                    [NoFault EXCEPT !.port_write = "dump"]}}
    \cup {ArgsCall(fl, r, i, DEVICE_OWNER_ROUTER_INTF, NoFault) :
             fl \in {<<>>} \cup ArgsFloatingIpLists, r \in {<<>>, <<R1, R2>>},
             i \in {<<>>, <<"10.0.0.1", "fd00::1">>}}
    \cup {ArgsCall(<<>>, <<R1>>, <<"10.0.0.1", "10.0.0.2">>, DEVICE_OWNER_DHCP, NoFault)}

ReconcileArgs ==
    \E c \in ArgsCalls :
        PortBoundEvent("p1", Details(c.fl, c.rules), "opflex", "physnet1", c.ips, c.owner, c.f)

UnboundArgs ==
    \E f \in {NoFault, [NoFault EXCEPT !.cleanup_fail = ConfiguredSegments]} :
        PortUnboundEvent("p1", f)

\* the agent resynchronises: the port_bound event it has just handled arrives
\* again, with the same arguments
Resync ==
    /\ call.state = "done"
    /\ call.event = "port_bound"
    /\ ~call.again
    /\ \E f \in {NoFault, [NoFault EXCEPT !.uuid_seed = 2]} :
           call' = [call EXCEPT !.state = "pending", !.again = TRUE, !.f = f,
                                !.first = [op |-> call.op, exc |-> call.exc,
                                           snat |-> call.snat],
                                !.op = "none", !.exc = "none", !.snat = EmptyDict,
                                !.held = NotHeld]
    /\ UNCHANGED core

NextArgs ==
    \/ ReconcileArgs
    \/ UnboundArgs
    \/ Resync
    \/ HandlePortBound
    \/ HandlePortUnbound
    \/ Return

SpecArgs == Init /\ [][NextArgs]_vars

-----------------------------------------------------------------------------
(* Properties *)

\* the (port, segment) keys of the allocation table of one IP version
AllocKeys(v) ==
    UNION {{<<p, es>> : es \in DOMAIN int_fip_alloc[v][p]} : p \in DOMAIN int_fip_alloc[v]}

\* the address held under a key
Held(v, k) == int_fip_alloc[v][k[1]][k[2]]

\* the addresses the allocation table of one IP version holds
Allocated(v) == {Held(v, k) : k \in AllocKeys(v)}

\* the configured pool of one IP version without the metadata address
UsablePool(v) ==
    IF v = 4
    THEN internal_floating_ip_pool \ {IPValue(METADATA_DEFAULT_IP)}
    ELSE internal_floating_ip6_pool

\* C1: in every reachable state and for each IP version, no address is both free
\* and allocated, no address is held under two different (port, segment) keys,
\* and the free and the allocated addresses together are the configured pool
\* without the metadata address.
C1_PoolInvariant ==
    \A v \in IPVersions :
        /\ int_fip_pool[v] \cap Allocated(v) = {}
        /\ \A k1 \in AllocKeys(v), k2 \in AllocKeys(v) :
               k1 # k2 => Held(v, k1) # Held(v, k2)
        /\ int_fip_pool[v] \cup Allocated(v) = UsablePool(v)

\* both ports hold v4 addresses, the v4 free set is empty, and a v6 address is held
C1_Witness ==
    /\ int_fip_pool[4] = {}
    /\ DOMAIN int_fip_alloc[4] = PortIds
    /\ int_fip_alloc[6] # EmptyDict

-----------------------------------------------------------------------------
(* What one handler did *)

\* the step in which a handler runs
HandleStep == call.state = "pending" /\ call'.state = "done"

\* the step in which mapping_to_file or mapping_cleanup runs
MappingStep == HandleStep /\ call'.op \in {"mapping_to_file", "mapping_cleanup"}

\* the SNAT collaborator calls a finished handler made for a segment
SnatCalls(c, es) == IF es \in DOMAIN c.snat THEN c.snat[es] ELSE <<>>

\* how many of them were calls of cleanup_snat_for_es, of setup_snat_for_es
CleanupCalls(c, es) ==
    Cardinality({k \in DOMAIN SnatCalls(c, es) :
                    SnatCalls(c, es)[k] \in {"cleanup", "cleanup_failed"}})

SetupCalls(c, es) ==
    Cardinality({k \in DOMAIN SnatCalls(c, es) :
                    SnatCalls(c, es)[k] \in {"setup", "setup_failed"}})

\* the usage set of a segment in an es_port_dict
Users(d, es) == IF es \in DOMAIN d THEN d[es] ELSE {}

\* the next hop of a segment is null
NextHopNull(nhs, es) ==
    es \in DOMAIN nhs => nhs[es].next_hop_iface = None /\ nhs[es].next_hop_mac = None

\* the segment names a handler can meet
SegmentNames == ConfiguredSegments \cup {"s9"}

\* C2: in every mapping_to_file or mapping_cleanup call and for every segment,
\* the teardown of the segment (next hop reset to null, host-endpoint record
\* deleted, cleanup_snat_for_es invoked) happens if and only if the usage set
\* of the segment goes from non-empty to empty in that call; a segment that
\* another port still uses is never torn down.
C2_TeardownIffEmptied ==
    [][MappingStep =>
        \A es \in SegmentNames :
            LET emptied == Users(es_port_dict, es) # {} /\ Users(es_port_dict', es) = {}
            IN  /\ CleanupCalls(call', es) > 0 <=> emptied
                /\ (~NextHopNull(ext_seg_next_hop, es) /\ NextHopNull(ext_seg_next_hop', es))
                       => emptied
                /\ (es \in DOMAIN files /\ es \notin DOMAIN files') => emptied
                /\ emptied => NextHopNull(ext_seg_next_hop', es) /\ es \notin DOMAIN files'
                /\ Users(es_port_dict, es) \ {call.port} # {}
                       => /\ CleanupCalls(call', es) = 0
                          /\ ext_seg_next_hop'[es] = ext_seg_next_hop[es]
                          /\ Users(es_port_dict', es) # {}
    ]_vars

\* a handler has torn down a segment that no port uses any more, and has left
\* alone another segment, which a second port still uses
C2_Witness ==
    /\ call.state = "done"
    /\ \E es \in DOMAIN call.snat :
           /\ CleanupCalls(call, es) = 1
           /\ es \notin DOMAIN es_port_dict
           /\ \E other \in DOMAIN es_port_dict :
                  /\ call.port \notin es_port_dict[other]
                  /\ CleanupCalls(call, other) = 0

-----------------------------------------------------------------------------
(* What mapping_to_file wrote for a port *)

\* the step in which mapping_to_file runs for a port that is not a router interface
ReconcileStep ==
    /\ HandleStep
    /\ call'.op = "mapping_to_file"
    /\ call.device_owner # DEVICE_OWNER_ROUTER_INTF

\* the rule has external_segment_name, nat_epg_tenant and nat_epg_name
WellFormed(ipm) ==
    /\ Truthy(ipm.external_segment_name)
    /\ Truthy(ipm.nat_epg_tenant)
    /\ Truthy(ipm.nat_epg_name)

\* the next hop of the segment of the i-th rule of the call c resolves: the
\* segment is configured with a valid next hop, and its interface was set up
\* before the call (nhs holds the next hops at the start of the call) or is
\* set up by this rule or an earlier rule of the call
Resolves(c, nhs, i) ==
    LET rules == c.gbp_details.ip_mapping
        es == rules[i].external_segment_name
    IN  /\ es \in DOMAIN nhs
        /\ is_valid(nhs[es])
        /\ \/ Truthy(nhs[es].next_hop_iface) /\ Truthy(nhs[es].next_hop_mac)
           \/ \E j \in 1..i : /\ WellFormed(rules[j])
                              /\ rules[j].external_segment_name = es
                              /\ j \notin c.f.setup_fail

\* the indices of the applicable rules of the call c, in the order of ip_mapping
ApplicableRules(c, nhs) ==
    SelectSeq([i \in 1..Len(c.gbp_details.ip_mapping) |-> i],
              LAMBDA i : /\ c.fixed_ips # <<>>
                         /\ WellFormed(c.gbp_details.ip_mapping[i])
                         /\ Resolves(c, nhs, i))

\* the segments of the applicable rules
ApplicableSegments(c, nhs) ==
    {c.gbp_details.ip_mapping[ApplicableRules(c, nhs)[n]].external_segment_name :
        n \in DOMAIN ApplicableRules(c, nhs)}

\* the n-th (fixed IP, applicable rule) pair of the call c: the rules in the
\* order of ip_mapping and, for each rule, the fixed IPs in their order
PairRule(c, nhs, n) ==
    c.gbp_details.ip_mapping[ApplicableRules(c, nhs)[((n - 1) \div Len(c.fixed_ips)) + 1]]

PairIp(c, n) == c.fixed_ips[((n - 1) % Len(c.fixed_ips)) + 1]

\* the entry e stands for the floating_ip record fip
StaticEntry(c, e, fip) ==
    /\ e.uuid = fip.id
    /\ e.mapped_ip = fip.fixed_ip_address
    /\ e.floating_ip = fip.floating_ip_address
    /\ e.policy_space_name = fip.nat_epg_tenant
    /\ e.endpoint_group_name = (IF fip.nat_epg_name = Absent
                                THEN Absent
                                ELSE PipeJoin(c.gbp_details.app_profile_name, fip.nat_epg_name))
    /\ e.next_hop_if = Absent
    /\ e.next_hop_mac = Absent

\* the entry e stands for the pair of the fixed IP ip and the rule ipm; nhs2
\* holds the next hops at the end of the call
DynamicEntry(c, nhs2, e, ipm, ip) ==
    /\ e.mapped_ip = ip
    /\ e.policy_space_name = ipm.nat_epg_tenant
    /\ e.endpoint_group_name = PipeJoin(c.gbp_details.app_profile_name, ipm.nat_epg_name)
    /\ e.next_hop_if = nhs2[ipm.external_segment_name].next_hop_iface
    /\ e.next_hop_mac = nhs2[ipm.external_segment_name].next_hop_mac
    /\ Truthy(e.next_hop_if)
    /\ Truthy(e.next_hop_mac)

\* the list m is the entries of the floating_ip records followed by one entry
\* per (fixed IP, applicable rule) pair, and nothing else
ExactEntries(c, nhs, nhs2, m) ==
    LET statics == Len(c.gbp_details.floating_ip)
        pairs == Len(c.fixed_ips) * Len(ApplicableRules(c, nhs))
    IN  /\ Len(m) = statics + pairs
        /\ \A k \in 1..statics : StaticEntry(c, m[k], c.gbp_details.floating_ip[k])
        /\ \A n \in 1..pairs :
               DynamicEntry(c, nhs2, m[statics + n], PairRule(c, nhs, n), PairIp(c, n))

\* C3: whenever mapping_to_file writes the descriptor of a port that is not a
\* router interface, the ip-address-mapping list of the descriptor is one
\* entry per floating_ip record followed by one entry per pair of a fixed IP
\* and an applicable rule (a rule with its three fields whose segment's next
\* hop resolves); no entry is missing and there is no other entry.
C3_DescriptorEntries ==
    [][(ReconcileStep /\ call'.exc = "none")
       => /\ call.port \in DOMAIN files'
          /\ ExactEntries(call, ext_seg_next_hop, ext_seg_next_hop',
                          files'[call.port].ip_address_mapping)
    ]_vars

\* a descriptor with two static entries and the entries of two fixed IPs for
\* the second of two rules, the first of which has no nat_epg_tenant
C3_Witness ==
    /\ call.state = "done"
    /\ call.op = "mapping_to_file"
    /\ call.exc = "none"
    /\ call.device_owner # DEVICE_OWNER_ROUTER_INTF
    /\ Len(call.gbp_details.floating_ip) = 2
    /\ call.gbp_details.ip_mapping = <<NoTenant, R2>>
    /\ Len(call.fixed_ips) = 2
    /\ Len(files[call.port].ip_address_mapping) = 4

\* the addresses the port holds in the allocation table d, per segment
PortFips(d, v, p) == IF p \in DOMAIN d[v] THEN d[v][p] ELSE EmptyDict

\* the port of the call c has a fixed IP of version v
HasVersion(c, v) == \E k \in DOMAIN c.fixed_ips : IPAddressVersion(c.fixed_ips[k]) = v

\* C4: the allocation key is (port, segment) per IP version.  After a
\* reconciliation the port holds, in each IP version it has a fixed IP of,
\* one address per segment of an applicable rule; what left the free set is
\* exactly the addresses of the segments that are new to the port; every entry
\* for a segment and a version carries the address held under (port, segment).
\* In particular a port with several fixed IPs of one version and applicable
\* rules for one segment S only, holding nothing before, takes exactly one
\* address of that version from the free set.
C4_OneAddressPerSegment ==
    [][(ReconcileStep /\ call'.exc = "none")
       => LET m == files'[call.port].ip_address_mapping
              statics == Len(call.gbp_details.floating_ip)
              segs == ApplicableSegments(call, ext_seg_next_hop)
          IN  /\ \A v \in IPVersions :
                     LET old == PortFips(int_fip_alloc, v, call.port)
                         new == PortFips(int_fip_alloc', v, call.port)
                     IN  /\ DOMAIN new = (IF HasVersion(call, v) THEN segs ELSE {})
                         /\ int_fip_pool[v] \ int_fip_pool'[v] =
                                {new[es] : es \in (DOMAIN new) \ (DOMAIN old)}
                         /\ \A es \in (DOMAIN new) \cap (DOMAIN old) : new[es] = old[es]
                         /\ (Cardinality({k \in DOMAIN call.fixed_ips :
                                             IPAddressVersion(call.fixed_ips[k]) = v}) > 1
                             /\ Cardinality(segs) = 1
                             /\ old = EmptyDict)
                                => /\ Cardinality(int_fip_pool[v] \ int_fip_pool'[v]) = 1
                                   /\ int_fip_pool'[v] \subseteq int_fip_pool[v]
              /\ \A n \in 1..(Len(m) - statics) :
                     m[statics + n].floating_ip =
                         Str(PortFips(int_fip_alloc', IPAddressVersion(PairIp(call, n)),
                                      call.port)
                                 [PairRule(call, ext_seg_next_hop, n).external_segment_name])
    ]_vars

\* a port with two v4 fixed IPs and one rule holds one v4 address, one address
\* has left the free set, and the two entries carry it
C4_Witness ==
    /\ call.state = "done"
    /\ call.op = "mapping_to_file"
    /\ call.exc = "none"
    /\ call.fixed_ips = <<"10.0.0.1", "10.0.0.2">>
    /\ call.gbp_details.ip_mapping = <<R1>>
    /\ call.gbp_details.floating_ip = <<>>
    /\ Cardinality(int_fip_pool[4]) = Pool4Size - 1
    /\ LET m == files[call.port].ip_address_mapping
       IN  /\ Len(m) = 2
           /\ m[1].floating_ip = m[2].floating_ip
           /\ m[1].floating_ip = Str(int_fip_alloc[4][call.port]["s1"])

-----------------------------------------------------------------------------
(* The same port_bound twice in a row *)

\* the step in which the second of two identical port_bound calls reconciles
ResyncStep == ReconcileStep /\ call.again

\* a call of setup_snat_for_es for the segment raised in the outcome o
SetupFailed(o, es) ==
    \E k \in DOMAIN SnatCalls(o, es) : SnatCalls(o, es)[k] = "setup_failed"

\* no collaborator (SNAT setup, record write) failed in the first call
FirstCallClean(c) ==
    /\ c.first.exc \in {"none", "StopIteration"}
    /\ \A es \in SegmentNames : ~SetupFailed(c.first, es)

\* an entry that _fill_ip_mapping_info allocated: it has a next hop
IsDynamic(e) == e.next_hop_if # Absent

\* two descriptors are equal but for the uuid of the dynamic entries
SameButUuid(d1, d2) ==
    /\ [d1 EXCEPT !.ip_address_mapping = <<>>] = [d2 EXCEPT !.ip_address_mapping = <<>>]
    /\ Len(d1.ip_address_mapping) = Len(d2.ip_address_mapping)
    /\ \A k \in DOMAIN d1.ip_address_mapping :
           LET e1 == d1.ip_address_mapping[k]
               e2 == d2.ip_address_mapping[k]
           IN  IF IsDynamic(e1)
               THEN [e1 EXCEPT !.uuid = ""] = [e2 EXCEPT !.uuid = ""]
               ELSE e1 = e2

-----------------------------------------------------------------------------
(* Exhausted pool *)

\* the call c needs a new address of version v: the port has a fixed IP of
\* that version and an applicable rule for a segment it holds no address for
NeedsAddress(c, nhs, alloc, v) ==
    /\ HasVersion(c, v)
    /\ ApplicableSegments(c, nhs) \ DOMAIN PortFips(alloc, v, c.port) # {}

\* C6 as stated: when a reconciliation needs a new address and the free set
\* of that IP version is empty, only that rule is skipped: the reconciliation
\* is not aborted and the port's descriptor is written.
C6_ExhaustionContained ==
    [][(/\ ReconcileStep
        /\ call.f = NoFault
        /\ \E v \in IPVersions :
               /\ NeedsAddress(call, ext_seg_next_hop, int_fip_alloc, v)
               /\ int_fip_pool[v] = {})
       => /\ call'.exc = "none"
          /\ call.port \in DOMAIN files'
          /\ files'[call.port] =
                 mapping_dict(VifPort(call.port), call.gbp_details, call.fixed_ips,
                              call.device_owner, files'[call.port].ip_address_mapping)
    ]_vars

\* a reconciliation has ended with StopIteration
C6_Witness ==
    /\ call.state = "done"
    /\ call.op = "mapping_to_file"
    /\ call.exc = "StopIteration"

-----------------------------------------------------------------------------
(* Last user of a segment *)

\* C7: when mapping_cleanup runs for a port that is the only member of the
\* usage set of segment S, then in that call the next hop of S becomes null,
\* the host-endpoint record of S and the port's own record are deleted, and
\* cleanup_snat_for_es is invoked for S exactly once.
C7_LastUserCleanup ==
    [][(HandleStep /\ call'.op = "mapping_cleanup")
       => \A es \in SegmentNames :
              Users(es_port_dict, es) = {call.port}
                  => /\ NextHopNull(ext_seg_next_hop', es)
                     /\ es \notin DOMAIN files'
                     /\ call.port \notin DOMAIN files'
                     /\ CleanupCalls(call', es) = 1
                     /\ Users(es_port_dict', es) = {}
    ]_vars

\* port_unbound has torn down a segment whose cleanup_snat_for_es raised
C7_Witness ==
    /\ call.state = "done"
    /\ call.event = "port_unbound"
    /\ call.f.cleanup_fail # {}
    /\ call.port \notin DOMAIN files
    /\ \E es \in ConfiguredSegments :
           /\ SnatCalls(call, es) = <<"cleanup_failed">>
           /\ es \notin DOMAIN es_port_dict
           /\ es \notin DOMAIN files
           /\ NextHopNull(ext_seg_next_hop, es)

-----------------------------------------------------------------------------
(* Router interface *)

\* C8: mapping_to_file for a port whose device owner is router-interface has
\* no effect: no record is written or changed, free sets, allocation table,
\* usage index and next hops are unchanged, and the SNAT collaborator is not
\* called, whatever the policy details and fixed IPs are.
C8_RouterInterfaceNoEffect ==
    [][(/\ HandleStep
        /\ call'.op = "mapping_to_file"
        /\ call.device_owner = DEVICE_OWNER_ROUTER_INTF)
       => /\ core' = core
          /\ call'.snat = EmptyDict
          /\ call'.exc = "none"
    ]_vars

\* mapping_to_file has run for a router interface with rules and fixed IPs,
\* while the port has a record and addresses from an earlier binding
C8_Witness ==
    /\ call.state = "done"
    /\ call.op = "mapping_to_file"
    /\ call.device_owner = DEVICE_OWNER_ROUTER_INTF
    /\ call.gbp_details.ip_mapping # <<>>
    /\ call.gbp_details.floating_ip # <<>>
    /\ call.fixed_ips # <<>>
    /\ call.port \in DOMAIN files
    /\ call.port \in DOMAIN int_fip_alloc[4]

-----------------------------------------------------------------------------
(* Rules that are skipped *)

\* the call c skips its i-th rule at lines 366-369
Skipped(c, i) == c.fixed_ips = <<>> \/ ~WellFormed(c.gbp_details.ip_mapping[i])

\* the call c has rules for the segment, and skips all of them
OnlySkipped(c, es) ==
    /\ \E i \in DOMAIN c.gbp_details.ip_mapping :
           c.gbp_details.ip_mapping[i].external_segment_name = es
    /\ \A i \in DOMAIN c.gbp_details.ip_mapping :
           c.gbp_details.ip_mapping[i].external_segment_name = es => Skipped(c, i)

\* what the skipped rules of the call must not have done
SkippedRulesInert ==
    \A es \in SegmentNames :
        OnlySkipped(call, es)
            => /\ SetupCalls(call', es) = 0
               /\ call.port \notin Users(es_port_dict', es)
               /\ \A v \in IPVersions : es \notin DOMAIN PortFips(int_fip_alloc', v, call.port)
               /\ (es \in DOMAIN files' => es \in DOMAIN files /\ files'[es] = files[es])

\* C9 as stated: a rule without external_segment_name, nat_epg_tenant or
\* nat_epg_name, and any rule of a port without fixed IP, is skipped without
\* error: no address, no SNAT setup, no host-endpoint record and no usage
\* entry come from it, and the port's descriptor is written with exactly the
\* entries of the valid rules and of the floating_ip records.
C9_MalformedRuleSkipped ==
    [][(/\ ReconcileStep
        /\ call.f = NoFault
        /\ \E i \in DOMAIN call.gbp_details.ip_mapping : Skipped(call, i))
       => /\ call'.exc = "none"
          /\ SkippedRulesInert
          /\ call.port \in DOMAIN files'
          /\ ExactEntries(call, ext_seg_next_hop, ext_seg_next_hop',
                          files'[call.port].ip_address_mapping)
    ]_vars

\* a reconciliation with a rule that has no nat_epg_tenant has ended with
\* StopIteration at its valid rule
C9_Witness ==
    /\ call.state = "done"
    /\ call.op = "mapping_to_file"
    /\ call.gbp_details.ip_mapping = <<NoTenant, R2>>
    /\ call.f = NoFault
    /\ call.exc = "StopIteration"

-----------------------------------------------------------------------------
(* SNAT setup fails *)

\* C10 as stated: when setup_snat_for_es fails for a segment during a
\* reconciliation, the next hop of the segment stays null, the port gets no
\* address for the segment and is not added to its usage set, the port's
\* descriptor is written, and setup is not invoked again for the segment
\* within the call.
C10_SetupFailureSkipsRule ==
    [][(/\ ReconcileStep
        /\ call.f.host_write = "ok"
        /\ call.f.port_write = "ok")
       => \A es \in SegmentNames :
              SetupFailed(call', es)
                  => /\ NextHopNull(ext_seg_next_hop', es)
                     /\ call.port \notin Users(es_port_dict', es)
                     /\ \A v \in IPVersions :
                            es \notin DOMAIN PortFips(int_fip_alloc', v, call.port)
                     /\ call'.exc = "none"
                     /\ call.port \in DOMAIN files'
                     /\ SetupCalls(call', es) = 1
    ]_vars

\* setup_snat_for_es has raised for a segment and has been invoked again for
\* it, with success, in the same reconciliation
C10_Witness ==
    /\ call.state = "done"
    /\ call.op = "mapping_to_file"
    /\ SnatCalls(call, "s1") = <<"setup_failed", "setup">>
    /\ ~NextHopNull(ext_seg_next_hop, "s1")
    /\ call.port \in Users(es_port_dict, "s1")

-----------------------------------------------------------------------------
(* SNAT teardown fails *)

\* a call of cleanup_snat_for_es for the segment raised in the outcome o
CleanupFailed(o, es) ==
    \E k \in DOMAIN SnatCalls(o, es) : SnatCalls(o, es)[k] = "cleanup_failed"

\* C11: a handler in which cleanup_snat_for_es raised for a segment ends
\* without exception; the segment is out of the usage index, its next hop is
\* null and its host-endpoint record is deleted.  A reconciliation has then
\* released what the pass did not use (the port holds addresses for exactly
\* the segments of its applicable rules) and has written the port's
\* descriptor; a cleanup has released all addresses of the port and has taken
\* the port out of every usage set.
C11_TeardownFailureContained ==
    [][MappingStep
       => \A es \in SegmentNames :
              CleanupFailed(call', es)
                  => /\ call'.exc = "none"
                     /\ es \notin DOMAIN es_port_dict'
                     /\ NextHopNull(ext_seg_next_hop', es)
                     /\ es \notin DOMAIN files'
                     /\ call'.op = "mapping_to_file"
                            => /\ call.port \in DOMAIN files'
                               /\ files'[call.port] =
                                      mapping_dict(VifPort(call.port), call.gbp_details,
                                                   call.fixed_ips, call.device_owner,
                                                   files'[call.port].ip_address_mapping)
                               /\ \A v \in IPVersions :
                                      DOMAIN PortFips(int_fip_alloc', v, call.port) =
                                          (IF HasVersion(call, v)
                                           THEN ApplicableSegments(call, ext_seg_next_hop)
                                           ELSE {})
                     /\ call'.op = "mapping_cleanup"
                            => /\ \A v \in IPVersions :
                                      PortFips(int_fip_alloc', v, call.port) = EmptyDict
                               /\ \A other \in SegmentNames :
                                      call.port \notin Users(es_port_dict', other)
                               /\ call.port \notin DOMAIN files'
    ]_vars

\* a reconciliation that moved a port from one segment to another has
\* torn down the first one, cleanup_snat_for_es raised, and the descriptor
\* with the entries for the second one is written
C11_Witness ==
    /\ call.state = "done"
    /\ call.op = "mapping_to_file"
    /\ call.exc = "none"
    /\ \E es \in ConfiguredSegments :
           /\ CleanupFailed(call, es)
           /\ es \notin DOMAIN es_port_dict
           /\ \A v \in IPVersions : es \notin DOMAIN PortFips(int_fip_alloc, v, call.port)
    /\ call.port \in DOMAIN files
    /\ files[call.port].ip_address_mapping # <<>>
    /\ \E other \in DOMAIN es_port_dict : call.port \in es_port_dict[other]

-----------------------------------------------------------------------------
(* Segments without users *)

\* C12 as stated: between events, a segment that no port depends on (its
\* usage set is empty or absent) has a null next-hop interface and MAC.
C12_UnusedSegmentUnresolved ==
    call.state = "idle"
        => \A es \in DOMAIN ext_seg_next_hop :
               Users(es_port_dict, es) = {} => NextHopNull(ext_seg_next_hop, es)

\* between events a segment is set up and has no user
C12_Witness ==
    /\ call.state = "idle"
    /\ \E es \in DOMAIN ext_seg_next_hop :
           /\ es \notin DOMAIN es_port_dict
           /\ ext_seg_next_hop[es].next_hop_iface # None
           /\ ext_seg_next_hop[es].next_hop_mac # None

-----------------------------------------------------------------------------
(* Order of mapping_cleanup *)

\* the segments for which the port holds an address in the allocation table d
HeldSegments(d, p) == (DOMAIN PortFips(d, 4, p)) \cup (DOMAIN PortFips(d, 6, p))

\* C13: mapping_cleanup dissociates the port from the segments it holds
\* addresses for before it releases the addresses.  So in every mapping_cleanup
\* the segments torn down are among those the port held an address for at the
\* start of the call, although it holds none at the end; a segment of which
\* the port is the last user is torn down; and a segment that another port
\* holding an address for it still uses is not torn down and keeps its users
\* but for the port.
C13_DissociateBeforeRelease ==
    [][(HandleStep /\ call'.op = "mapping_cleanup")
       => /\ HeldSegments(int_fip_alloc', call.port) = {}
          /\ \A es \in SegmentNames :
                 /\ CleanupCalls(call', es) > 0 => es \in HeldSegments(int_fip_alloc, call.port)
                 /\ Users(es_port_dict, es) = {call.port}
                        => /\ es \in HeldSegments(int_fip_alloc, call.port)
                           /\ CleanupCalls(call', es) = 1
                           /\ es \notin DOMAIN es_port_dict'
                           /\ NextHopNull(ext_seg_next_hop', es)
                 /\ (\E q \in Users(es_port_dict, es) \ {call.port} :
                         es \in HeldSegments(int_fip_alloc, q))
                        => /\ CleanupCalls(call', es) = 0
                           /\ Users(es_port_dict', es) = Users(es_port_dict, es) \ {call.port}
                           /\ ext_seg_next_hop'[es] = ext_seg_next_hop[es]
                           /\ (es \in DOMAIN files => es \in DOMAIN files')
    ]_vars

\* port_unbound, with no collaborator failing, has torn down one segment and
\* has left alone another one, which a port holding an address for it uses
C13_Witness ==
    /\ call.state = "done"
    /\ call.event = "port_unbound"
    /\ call.f = NoFault
    /\ HeldSegments(int_fip_alloc, call.port) = {}
    /\ \E es \in ConfiguredSegments, other \in ConfiguredSegments :
           /\ SnatCalls(call, es) = <<"cleanup">>
           /\ es \notin DOMAIN es_port_dict
           /\ other \in DOMAIN es_port_dict
           /\ other \notin DOMAIN call.snat
           /\ \E q \in es_port_dict[other] : other \in HeldSegments(int_fip_alloc, q)
           /\ ~NextHopNull(ext_seg_next_hop, other)

-----------------------------------------------------------------------------
(* Release per IP version *)

\* the segments the call c uses in version v: those of its applicable rules,
\* when the port has a fixed IP of that version
UsedSegments(c, nhs, v) == IF HasVersion(c, v) THEN ApplicableSegments(c, nhs) ELSE {}

\* C14: after a completed reconciliation of a port, and for each IP version,
\* the segments the port holds an address for in that version are exactly the
\* segments the pass used for that version.  When the port held a v4 and a v6
\* address for segment S and the pass uses S with v4 fixed IPs only, the v6
\* address is back in the v6 free set, the port is in the usage set of S, its
\* v4 address for S is the one it held, and S is not torn down.
C14_ReleasePerVersion ==
    [][(ReconcileStep /\ call'.exc = "none")
       => /\ \A v \in IPVersions :
                 DOMAIN PortFips(int_fip_alloc', v, call.port) =
                     UsedSegments(call, ext_seg_next_hop, v)
          /\ \A es \in SegmentNames :
                 (/\ es \in DOMAIN PortFips(int_fip_alloc, 4, call.port)
                  /\ es \in DOMAIN PortFips(int_fip_alloc, 6, call.port)
                  /\ es \in UsedSegments(call, ext_seg_next_hop, 4)
                  /\ ~HasVersion(call, 6))
                     => /\ PortFips(int_fip_alloc, 6, call.port)[es] \in int_fip_pool'[6]
                        /\ es \notin DOMAIN PortFips(int_fip_alloc', 6, call.port)
                        /\ call.port \in Users(es_port_dict', es)
                        /\ PortFips(int_fip_alloc', 4, call.port)[es] =
                               PortFips(int_fip_alloc, 4, call.port)[es]
                        /\ CleanupCalls(call', es) = 0
                        /\ ext_seg_next_hop'[es] = ext_seg_next_hop[es]
                        /\ ~NextHopNull(ext_seg_next_hop', es)
    ]_vars

\* a port that held a v4 and a v6 address for "s1" has been reconciled with a
\* v4 fixed IP only: the v6 address is free again, the v4 address is the one
\* it held, and the port is in the usage set of "s1", which is still set up
C14_Witness ==
    /\ call.state = "done"
    /\ call.op = "mapping_to_file"
    /\ call.exc = "none"
    /\ call.fixed_ips = <<"10.0.0.1">>
    /\ call.gbp_details.ip_mapping = <<R1>>
    /\ "s1" \in DOMAIN call.held[4]
    /\ "s1" \in DOMAIN call.held[6]
    /\ call.held[6]["s1"] \in int_fip_pool[6]
    /\ int_fip_alloc[6] = EmptyDict
    /\ PortFips(int_fip_alloc, 4, call.port) = call.held[4]
    /\ call.port \in Users(es_port_dict, "s1")
    /\ ~NextHopNull(ext_seg_next_hop, "s1")
    /\ call.snat = EmptyDict

-----------------------------------------------------------------------------
(* Static floating_ip entries *)

\* C15 as stated: the entry emitted for a floating_ip record has the record's
\* id, mapped IP and floating IP, and a target policy space and group: the
\* NAT-specific ones (nat_epg_tenant, nat_epg_name) when the record has
\* them, the port's own policy space and group otherwise.
C15_StaticEntryTarget ==
    [][(ReconcileStep /\ call'.exc = "none")
       => \A k \in DOMAIN call.gbp_details.floating_ip :
              LET fip == call.gbp_details.floating_ip[k]
                  e == files'[call.port].ip_address_mapping[k]
              IN  /\ e.uuid = fip.id
                  /\ e.mapped_ip = fip.fixed_ip_address
                  /\ e.floating_ip = fip.floating_ip_address
                  /\ e.policy_space_name =
                         (IF fip.nat_epg_tenant # Absent
                          THEN fip.nat_epg_tenant
                          ELSE files'[call.port].policy_space_name)
                  /\ e.endpoint_group_name =
                         (IF fip.nat_epg_name # Absent
                          THEN PipeJoin(call.gbp_details.app_profile_name, fip.nat_epg_name)
                          ELSE files'[call.port].endpoint_group_name)
    ]_vars

\* a descriptor is written with a static entry that has neither a policy
\* space nor a group
C15_Witness ==
    /\ call.state = "done"
    /\ call.op = "mapping_to_file"
    /\ call.exc = "none"
    /\ call.port \in DOMAIN files
    /\ \E k \in DOMAIN call.gbp_details.floating_ip :
           /\ k \in DOMAIN files[call.port].ip_address_mapping
           /\ call.gbp_details.floating_ip[k].nat_epg_tenant = Absent
           /\ files[call.port].ip_address_mapping[k].uuid = call.gbp_details.floating_ip[k].id
           /\ files[call.port].ip_address_mapping[k].policy_space_name = Absent
           /\ files[call.port].ip_address_mapping[k].endpoint_group_name = Absent

-----------------------------------------------------------------------------
(* Record writes as a reader of the endpoint directory sees them.            *)
(* The endpoint directory is read by another process, at any time: a reader  *)
(* sees `files` as it is in a state.  _write_endpoint_file (lines 343-344)   *)
(* opens the file with mode 'w', which truncates it, and then dumps the      *)
(* record into it; the port's descriptor, the last statement of              *)
(* mapping_to_file (line 264), is written here in these two steps.  No       *)
(* collaborator fails.                                                       *)

ReconcileIO ==
    \E p \in PortIds, rules \in RuleLists :
        PortBoundEvent(p, Details(<<>>, rules), "opflex", "physnet1", FixedIps(p),
                       "compute:nova", NoFault)

UnboundIO == \E p \in PortIds : PortUnboundEvent(p, NoFault)

\* the agent at the end of the pending port_bound
PortBoundResult ==
    port_bound(AgentState, call.port, call.gbp_details, call.network_type,
               call.physical_network, call.fixed_ips, call.device_owner, call.f)

\* the pending port_bound writes the port's descriptor at line 264
WritesDescriptor ==
    /\ call.state = "pending"
    /\ call.event = "port_bound"
    /\ PortBoundResult.op = "mapping_to_file"
    /\ PortBoundResult.exc = "none"
    /\ call.device_owner # DEVICE_OWNER_ROUTER_INTF

\* port_bound up to open(filename, 'w') of line 343: the descriptor file is
\* empty, and the record to dump is kept with the event
OpenRecord ==
    /\ WritesDescriptor
    /\ Commit([PortBoundResult EXCEPT !.files = (call.port :> TruncatedRecord) @@ @])
    /\ call' = ("record" :> PortBoundResult.files[call.port])
                   @@ [Outcome(PortBoundResult) EXCEPT !.state = "writing"]

\* jsonutils.dump of line 344 and the end of the with block: the descriptor
\* is complete, and port_bound is at its end
DumpRecord ==
    /\ call.state = "writing"
    /\ files' = (call.port :> call.record) @@ files
    /\ call' = [k \in (DOMAIN call) \ {"record"} |-> IF k = "state" THEN "done" ELSE call[k]]
    /\ UNCHANGED <<int_fip_pool, int_fip_alloc, ext_seg_next_hop, es_port_dict>>

\* a port_bound that does not reach line 264 runs to its end
PortBoundWithoutWrite == HandlePortBound /\ ~WritesDescriptor

NextIO ==
    \/ ReconcileIO
    \/ UnboundIO
    \/ OpenRecord
    \/ DumpRecord
    \/ PortBoundWithoutWrite
    \/ HandlePortUnbound
    \/ Return

SpecIO == Init /\ [][NextIO]_vars

\* C16 as stated: while _write_endpoint_file overwrites the record of a key,
\* a reader of that key finds the complete previous record, no record, or the
\* complete new record, never an empty or partially written one.
C16_AtomicRecordWrite ==
    \A key \in DOMAIN files : files[key] # TruncatedRecord

\* the descriptor of a port that had a complete record is open for writing
\* and empty
C16_Witness ==
    /\ call.state = "writing"
    /\ files[call.port] = TruncatedRecord
    /\ call.record # TruncatedRecord
    /\ call.record.uuid = call.port

-----------------------------------------------------------------------------
(* Start of the agent over the endpoint directory of a previous run:         *)
(* __init__ (lines 93-120) and setup_pt_directory (lines 122-134).           *)
(* The entries of the directory are the domain of `files`: a record          *)
(* "<key>.ep" is the entry key, and the entries of UnmanagedEntries are      *)
(* files without the suffix ".ep".                                           *)

\* files of the endpoint directory that are no records
UnmanagedEntries == {"README"}

\* f.endswith('.' + FILE_EXTENSION)
HasManagedSuffix(entry) == entry \notin UnmanagedEntries

\* what a previous run, or anybody else, has left under an entry
StaleRecord(entry) ==
    [TruncatedRecord EXCEPT !.uuid = "stale-" \o entry, !.interface_name = "stale"]

\* the entries a previous run may have left
StaleEntries == {"p1", "s1", "p7"} \cup UnmanagedEntries

\* how the agent may find the directory and its environment at start:
\* exists is os.path.exists(directory), remove_fail the entries for which
\* os.remove raises OSError, snat_all_fails whether cleanup_snat_all raises
StartConditions ==
    {[state |-> "starting", exists |-> e, entries |-> d, remove_fail |-> r,
      snat_all_fails |-> s] :
        e \in BOOLEAN, d \in SUBSET StaleEntries, r \in SUBSET {"p1", "s1"}, s \in BOOLEAN}

\* self.snat_iptables.cleanup_snat_all(): TRUE when it raises
cleanup_snat_all(c) == c.snat_all_fails

\* lines 128-133 without the try: the first OSError of os.remove propagates,
\* the records os.listdir yields after it are kept
setup_pt_directory_strict(a, c) ==
    IF ~c.exists
    THEN a
    ELSE IF \E k \in DOMAIN a.files : HasManagedSuffix(k) /\ k \in c.remove_fail
    THEN [a EXCEPT !.exc = "OSError"]
    ELSE [a EXCEPT !.files = [k \in {e \in DOMAIN @ : ~HasManagedSuffix(e)} |-> @[k]],
                   !.exc = IF cleanup_snat_all(c) THEN "Exception" ELSE "none"]

\* lines 122-134: os.makedirs of a missing directory; otherwise every record
\* is removed, an OSError of os.remove is logged, and cleanup_snat_all is called
setup_pt_directory(a, c) ==
    IF ~c.exists
    THEN a
    ELSE [a EXCEPT !.files = [k \in {e \in DOMAIN @ : ~HasManagedSuffix(e) \/ e \in c.remove_fail}
                                 |-> @[k]],
                   !.exc = IF cleanup_snat_all(c) THEN "Exception" ELSE "none"]

\* lines 103-110: the fields __init__ assigns
Constructed ==
    [AgentState EXCEPT
        !.int_fip_pool = [v \in IPVersions |->
                             IF v = 4
                             THEN internal_floating_ip_pool \ {IPValue(METADATA_DEFAULT_IP)}
                             ELSE internal_floating_ip6_pool],
        !.int_fip_alloc = [v \in IPVersions |-> EmptyDict],
        !.ext_seg_next_hop = [es \in ConfiguredSegments |-> ExtSegNextHopInfo(es)],
        !.es_port_dict = EmptyDict]

\* the process starts: the fields do not exist before __init__ (they have
\* here the values __init__ gives them), and the directory is as it was left
InitRestart ==
    /\ int_fip_pool = [v \in IPVersions |->
                          IF v = 4
                          THEN internal_floating_ip_pool \ {IPValue(METADATA_DEFAULT_IP)}
                          ELSE internal_floating_ip6_pool]
    /\ int_fip_alloc = [v \in IPVersions |-> EmptyDict]
    /\ ext_seg_next_hop = [es \in ConfiguredSegments |-> ExtSegNextHopInfo(es)]
    /\ es_port_dict = EmptyDict
    /\ call \in StartConditions
    /\ call.exists \/ call.entries = {}
    /\ call.remove_fail \subseteq call.entries
    /\ files = [k \in call.entries |-> StaleRecord(k)]

\* __init__ runs to its end: the agent is in its loop, or the exception of
\* cleanup_snat_all has ended the process
Startup ==
    /\ call.state = "starting"
    /\ Commit(setup_pt_directory(Constructed, call))
    /\ call' = IF setup_pt_directory(Constructed, call).exc = "none"
               THEN NoCall
               ELSE [state |-> "failed"]

NextRestart ==
    \/ Startup
    \/ ReconcileIO
    \/ UnboundIO
    \/ HandlePortBound
    \/ HandlePortUnbound
    \/ Return

SpecRestart == InitRestart /\ [][NextRestart]_vars

\* C17: at start every record of the previous run is removed, except those
\* for which the removal fails; a failing removal neither keeps another
\* record from being removed nor fails the start (only cleanup_snat_all
\* does).  After the start the allocation table and the usage index are
\* empty, every next hop is unresolved, and the directory holds, of the
\* entries with the managed suffix, only those whose removal failed.
C17_RestartRecovery ==
    [][call.state = "starting"
       => /\ call'.state = "failed" <=> (call.exists /\ call.snat_all_fails)
          /\ call'.state # "failed" => call' = NoCall
          /\ \A v \in IPVersions : int_fip_alloc'[v] = EmptyDict
          /\ \A v \in IPVersions : int_fip_pool'[v] = UsablePool(v)
          /\ es_port_dict' = EmptyDict
          /\ \A es \in DOMAIN ext_seg_next_hop' : NextHopNull(ext_seg_next_hop', es)
          /\ DOMAIN ext_seg_next_hop' = ConfiguredSegments
          /\ {k \in DOMAIN files' : HasManagedSuffix(k)} =
                 {k \in DOMAIN files : HasManagedSuffix(k) /\ k \in call.remove_fail}
          /\ \A k \in DOMAIN files' : k \in DOMAIN files /\ files'[k] = files[k]
          /\ \A k \in DOMAIN files : ~HasManagedSuffix(k) => k \in DOMAIN files'
    ]_vars

\* the agent has started and is in its loop: of the entries it found, a
\* record whose removal failed and the file without the suffix are left, and
\* nothing is allocated
C17_Witness ==
    /\ call = NoCall
    /\ DOMAIN files = {"p1", "README"}
    /\ files["p1"] = StaleRecord("p1")
    /\ es_port_dict = EmptyDict
    /\ \A v \in IPVersions : int_fip_alloc[v] = EmptyDict

-----------------------------------------------------------------------------
(* What mapping_cleanup leaves *)

\* C18: after mapping_cleanup of a port, the port holds no address in either
\* IP version, is in no usage set and has no record, and each free set is what
\* it was together with the addresses the port held; the addresses and the
\* records of the other ports are unchanged, and nothing is raised.  When the
\* port had no record and no address, nothing changes and cleanup_snat_for_es
\* is not called.
C18_CleanupFrame ==
    [][(HandleStep /\ call'.op = "mapping_cleanup")
       => /\ call'.exc = "none"
          /\ \A v \in IPVersions :
                 /\ PortFips(int_fip_alloc', v, call.port) = EmptyDict
                 /\ call.port \notin DOMAIN int_fip_alloc'[v]
                 /\ int_fip_pool'[v] =
                        int_fip_pool[v] \cup DictValues(PortFips(int_fip_alloc, v, call.port))
                 /\ \A q \in PortIds \ {call.port} :
                        PortFips(int_fip_alloc', v, q) = PortFips(int_fip_alloc, v, q)
          /\ \A es \in SegmentNames : call.port \notin Users(es_port_dict', es)
          /\ call.port \notin DOMAIN files'
          /\ \A q \in PortIds \ {call.port} :
                 /\ q \in DOMAIN files' <=> q \in DOMAIN files
                 /\ q \in DOMAIN files => files'[q] = files[q]
          /\ (call.port \notin DOMAIN files /\ HeldSegments(int_fip_alloc, call.port) = {})
                 => /\ core' = core
                    /\ call'.snat = EmptyDict
    ]_vars

\* port_unbound of a port that held a v4 and a v6 address: both are free
\* again, the port has no record, and the other port has its address and
\* its record
C18_Witness ==
    /\ call.state = "done"
    /\ call.op = "mapping_cleanup"
    /\ call.event = "port_unbound"
    /\ call.held[4] # EmptyDict
    /\ call.held[6] # EmptyDict
    /\ DictValues(call.held[4]) \subseteq int_fip_pool[4]
    /\ DictValues(call.held[6]) \subseteq int_fip_pool[6]
    /\ HeldSegments(int_fip_alloc, call.port) = {}
    /\ call.port \notin DOMAIN files
    /\ \E q \in PortIds \ {call.port} :
           /\ q \in DOMAIN files
           /\ PortFips(int_fip_alloc, 4, q) # EmptyDict

-----------------------------------------------------------------------------
(* Usage index against allocation table *)

\* no usage set is stored empty
NoEmptyUsageSet == \A es \in DOMAIN es_port_dict : es_port_dict[es] # {}

\* a port in the usage set of a segment holds an address for that segment
UserHoldsAddress ==
    \A p \in PortIds : \A es \in SegmentNames :
        p \in Users(es_port_dict, es) => es \in HeldSegments(int_fip_alloc, p)

\* a port that holds an address for a segment is in the usage set of the segment
HolderIsUser ==
    \A p \in PortIds : \A es \in SegmentNames :
        es \in HeldSegments(int_fip_alloc, p) => p \in Users(es_port_dict, es)

\* C19: between events a port is in the usage set of a segment exactly when
\* it holds an address for that segment in the v4 or the v6 allocation table,
\* and es_port_dict stores no empty usage set.
C19_UsageMatchesAllocation ==
    call.state = "idle" => UserHoldsAddress /\ HolderIsUser /\ NoEmptyUsageSet

\* a port_bound has ended in StopIteration or IOError and has left the port
\* with an address for a segment of which it is no user
C19_Witness ==
    /\ call.state = "done"
    /\ call.exc \in {"StopIteration", "IOError"}
    /\ ~HolderIsUser
    /\ UserHoldsAddress
    /\ NoEmptyUsageSet

-----------------------------------------------------------------------------
(* Order of the SNAT collaborator calls of one segment *)

\* A segment is "unresolved" until a call of setup_snat_for_es for it returns,
\* "resolved" from then until the next call of cleanup_snat_for_es for it.
\* AfterCalls(calls, s) is where the calls of one handler take a segment from
\* s: a call of setup_snat_for_es for a resolved segment, or of
\* cleanup_snat_for_es for an unresolved one, is "out of order".
RECURSIVE AfterCalls(_, _)
AfterCalls(calls, s) ==
    IF calls = <<>> \/ s = "out of order"
    THEN s
    ELSE AfterCalls(Tail(calls),
                    CASE Head(calls) = "setup" /\ s = "unresolved" -> "resolved"
                      [] Head(calls) = "setup_failed" /\ s = "unresolved" -> "unresolved"
                      [] Head(calls) \in {"cleanup", "cleanup_failed"} /\ s = "resolved"
                             -> "unresolved"
                      [] OTHER -> "out of order")

\* the next hop of a segment as the agent holds it
Resolution(nhs, es) == IF NextHopNull(nhs, es) THEN "unresolved" ELSE "resolved"

\* C20: setup_snat_for_es is called for a segment only while its next hop is
\* unresolved, and cleanup_snat_for_es only after a setup of the segment has
\* succeeded since the previous cleanup: the next hop is null at the start, and
\* the calls of every handler for a segment, in their order, start from the
\* next hop the handler found and end in the next hop it leaves, a setup only
\* when unresolved and a teardown only when resolved.  So the successful
\* setups and the teardowns of a segment alternate, setup first.
C20_SetupTeardownAlternate ==
    /\ \A es \in SegmentNames : Resolution(ext_seg_next_hop, es) = "unresolved"
    /\ [][HandleStep
          => \A es \in SegmentNames :
                 AfterCalls(SnatCalls(call', es), Resolution(ext_seg_next_hop, es))
                     = Resolution(ext_seg_next_hop', es)
       ]_vars

\* a port_bound found the next hop of a segment resolved and a port in its
\* usage set, and made no call for it; the segment had been set up by an
\* earlier event
C20_Witness ==
    /\ call.state = "done"
    /\ call.op = "mapping_to_file"
    /\ call.exc = "none"
    /\ \E es \in ConfiguredSegments :
           /\ SnatCalls(call, es) = <<>>
           /\ ~NextHopNull(ext_seg_next_hop, es)
           /\ PortIds \subseteq Users(es_port_dict, es)

-----------------------------------------------------------------------------
(* Host-endpoint records against usage index and next hop *)

\* the segments that have a host-endpoint record
HostRecords == (DOMAIN files) \cap SegmentNames

\* the host-endpoint record of a segment carries the next hop the agent holds
\* for the segment, and that next hop is not null
RecordMatchesNextHop(es) ==
    /\ es \in DOMAIN ext_seg_next_hop
    /\ ext_seg_next_hop[es].next_hop_iface # None
    /\ ext_seg_next_hop[es].next_hop_mac # None
    /\ files[es].interface_name = ext_seg_next_hop[es].next_hop_iface
    /\ files[es].mac = ext_seg_next_hop[es].next_hop_mac

\* C21: between events, a segment that has a host-endpoint record has a
\* non-empty usage set and a next hop whose interface and MAC are not null and
\* are the interface-name and mac of the record; also after a reconciliation
\* in which setup_snat_for_es failed for the segment.
C21_HostRecordOnlyInUse ==
    call.state = "idle"
        => \A es \in HostRecords :
               /\ Users(es_port_dict, es) # {}
               /\ RecordMatchesNextHop(es)

\* a port_bound in which setup_snat_for_es failed for a segment has left a
\* host-endpoint record of that segment with null interface-name and mac,
\* while the segment has no user
C21_Witness ==
    /\ call.state = "done"
    /\ call.op = "mapping_to_file"
    /\ \E es \in HostRecords :
           /\ SnatCalls(call, es) = <<"setup_failed">>
           /\ files[es].interface_name = None
           /\ files[es].mac = None
           /\ Users(es_port_dict, es) = {}

-----------------------------------------------------------------------------
(* Next hop of a segment in use.  setup_snat_for_es creates the next-hop     *)
(* interface of a segment and returns its MAC, which is not the same at      *)
(* every setup; the descriptor write may fail, at open() or in the dump, and *)
(* so may a setup.                                                           *)

NextHopFaults ==
    {NoFault,
     [NoFault EXCEPT !.mac = "aa:02"],
     [NoFault EXCEPT !.setup_fail = {1}],
     [NoFault EXCEPT !.port_write = "open"],
     [NoFault EXCEPT !.port_write = "dump"]}

\* ip_mapping lists over the rule for the segment "s1"
NextHopRuleLists == {<<>>, <<Rule("s1", "nat-t", "nat-g")>>}

ReconcileNextHop ==
    \E p \in PortIds, rules \in NextHopRuleLists, f \in NextHopFaults :
        PortBoundEvent(p, Details(<<>>, rules), "opflex", "physnet1", FixedIps(p),
                       "compute:nova", f)

UnboundNextHop == \E p \in PortIds : PortUnboundEvent(p, NoFault)

NextNextHop ==
    \/ ReconcileNextHop
    \/ UnboundNextHop
    \/ HandlePortBound
    \/ HandlePortUnbound
    \/ Return

SpecNextHop == Init /\ [][NextNextHop]_vars

\* the entry e of the record of port p is a dynamic entry for the segment es:
\* its floating_ip is the address p holds for es
EntryOfSegment(e, p, es) ==
    /\ IsDynamic(e)
    /\ \E v \in IPVersions :
           /\ es \in DOMAIN PortFips(int_fip_alloc, v, p)
           /\ e.floating_ip = Str(PortFips(int_fip_alloc, v, p)[es])

\* the dynamic entries for es in the record of p carry the next hop of es
RecordCarriesNextHop(p, es) ==
    p \in DOMAIN files
        => \A k \in DOMAIN files[p].ip_address_mapping :
               EntryOfSegment(files[p].ip_address_mapping[k], p, es)
                   => /\ files[p].ip_address_mapping[k].next_hop_if
                             = ext_seg_next_hop[es].next_hop_iface
                      /\ files[p].ip_address_mapping[k].next_hop_mac
                             = ext_seg_next_hop[es].next_hop_mac

\* the next hop of a segment with a user is resolved
UsedSegmentResolved ==
    \A es \in DOMAIN es_port_dict :
        es_port_dict[es] # {}
            => /\ es \in DOMAIN ext_seg_next_hop
               /\ ext_seg_next_hop[es].next_hop_iface # None
               /\ ext_seg_next_hop[es].next_hop_mac # None

\* C22: between events, a segment with a non-empty usage set has a next hop
\* whose interface and MAC are not null, and every dynamic entry for the
\* segment in the record of a port of that usage set carries that interface
\* and that MAC.
C22_UsedSegmentStaysResolved ==
    call.state = "idle"
        => /\ UsedSegmentResolved
           /\ \A es \in DOMAIN es_port_dict : \A p \in es_port_dict[es] :
                  RecordCarriesNextHop(p, es)

\* a port_bound whose descriptor write failed has left the port in the usage
\* set of a segment, with an older record whose entry for the segment carries
\* the MAC of an interface that is gone
C22_Witness ==
    /\ call.state = "done"
    /\ call.op = "mapping_to_file"
    /\ call.exc = "IOError"
    /\ UsedSegmentResolved
    /\ \E es \in DOMAIN es_port_dict :
           /\ call.port \in es_port_dict[es]
           /\ SnatCalls(call, es) = <<"setup">>
           /\ ~RecordCarriesNextHop(call.port, es)

-----------------------------------------------------------------------------
(* Addresses a port keeps *)

\* the segments for which the port of the call c holds an address of version
\* v that the call is to use again: the port has a fixed IP of that
\* version and a rule for the segment is applicable
KeptSegments(c, nhs, alloc, v) ==
    IF HasVersion(c, v)
    THEN ApplicableSegments(c, nhs) \cap DOMAIN PortFips(alloc, v, c.port)
    ELSE {}

\* the handler of an event for one port leaves the addresses of the other
\* ports as they are
OtherPortsKeep ==
    \A q \in PortIds \ {call.port} : \A v \in IPVersions :
        PortFips(int_fip_alloc', v, q) = PortFips(int_fip_alloc, v, q)

\* the port holds after the call the address it held for (es, v), and what
\* the call took from the free set of v went to segments new to the port
AddressKept(v, es) ==
    /\ es \in DOMAIN PortFips(int_fip_alloc', v, call.port)
    /\ PortFips(int_fip_alloc', v, call.port)[es] = PortFips(int_fip_alloc, v, call.port)[es]
    /\ int_fip_pool[v] \ int_fip_pool'[v] \subseteq
           {PortFips(int_fip_alloc', v, call.port)[e] :
               e \in (DOMAIN PortFips(int_fip_alloc', v, call.port))
                        \ (DOMAIN PortFips(int_fip_alloc, v, call.port))}

\* the descriptor of the port is written, and its entries for (es, v), of
\* which there is one, carry the address the port held for (es, v)
AddressEmitted(v, es) ==
    /\ call'.exc = "none"
    /\ call.port \in DOMAIN files'
    /\ LET m == files'[call.port].ip_address_mapping
           statics == Len(call.gbp_details.floating_ip)
           mine == {n \in 1..(Len(m) - statics) :
                       /\ PairRule(call, ext_seg_next_hop, n).external_segment_name = es
                       /\ IPAddressVersion(PairIp(call, n)) = v}
       IN  /\ mine # {}
           /\ \A n \in mine :
                  m[statics + n].floating_ip = Str(PortFips(int_fip_alloc, v, call.port)[es])

\* C23: once a port holds an address for (segment, IP version), the events of
\* other ports leave it, and every reconciliation of the port in which a rule
\* for the segment is applicable and the port has a fixed IP of that version
\* keeps the address, takes nothing from the free set for it, and writes it as
\* floating_ip of the entries of the descriptor for that segment and version.
C23_AddressStable ==
    [][HandleStep
       => /\ OtherPortsKeep
          /\ (/\ ReconcileStep
              /\ call.f.host_write = "ok"
              /\ call.f.port_write = "ok")
                 => \A v \in IPVersions :
                        \A es \in KeptSegments(call, ext_seg_next_hop, int_fip_alloc, v) :
                            AddressKept(v, es) /\ AddressEmitted(v, es)
    ]_vars

\* a reconciliation of a port that held a v4 address for a segment and has
\* an applicable rule for it ended in StopIteration at another rule: the
\* port holds the address still, and its record is the one of an earlier event
C23_Witness ==
    /\ call.state = "done"
    /\ call.op = "mapping_to_file"
    /\ call.exc = "StopIteration"
    /\ call.f = NoFault
    /\ \E es \in DOMAIN call.held[4] :
           /\ \E i \in DOMAIN call.gbp_details.ip_mapping :
                  call.gbp_details.ip_mapping[i].external_segment_name = es
           /\ es \in DOMAIN PortFips(int_fip_alloc, 4, call.port)
           /\ int_fip_alloc[4][call.port][es] = call.held[4][es]
           /\ call.port \in DOMAIN files
           /\ Len(files[call.port].ip_address_mapping) < Len(call.fixed_ips) * 2

-----------------------------------------------------------------------------
(* What a port event does with the port *)

\* the port of the call c has a policy binding on a network of a supported
\* type that the agent manages
ManagedBinding(c) ==
    /\ c.gbp_details # EmptyDetails
    /\ c.network_type \in supported_pt_network_types
    /\ c.physical_network \in opflex_networks

\* the handler has run mapping_cleanup, and the port has no record, is in no
\* usage set and holds no address
FullCleanup ==
    /\ call'.op = "mapping_cleanup"
    /\ call.port \notin DOMAIN files'
    /\ \A es \in SegmentNames : call.port \notin Users(es_port_dict', es)
    /\ \A v \in IPVersions : call.port \notin DOMAIN int_fip_alloc'[v]

\* C24: port_bound without policy binding, port_bound with a binding on a
\* network of a supported type whose physical network the agent does not
\* manage, and port_unbound clean the port up: its record is deleted, it
\* leaves the usage sets and its addresses are released.  port_bound with a
\* binding on a managed opflex network runs mapping_to_file.  After any
\* port_bound the port has a record only if it has a policy binding on a
\* managed network of a supported type.
C24_RecordFollowsBinding ==
    [][HandleStep
       => /\ call.event = "port_unbound" => FullCleanup
          /\ (call.event = "port_bound" /\ call.gbp_details = EmptyDetails) => FullCleanup
          /\ (/\ call.event = "port_bound"
              /\ call.gbp_details # EmptyDetails
              /\ call.network_type \in supported_pt_network_types
              /\ call.physical_network \notin opflex_networks) => FullCleanup
          /\ (call.event = "port_bound" /\ ManagedBinding(call))
                 => call'.op = "mapping_to_file"
          /\ (call.event = "port_bound" /\ call.port \in DOMAIN files')
                 => ManagedBinding(call)
    ]_vars

\* a port_bound with a binding on a network of a type that is not supported
\* has run neither mapping_to_file nor mapping_cleanup, and the port has the
\* record and the address of its earlier binding
C24_Witness ==
    /\ call.state = "done"
    /\ call.event = "port_bound"
    /\ call.gbp_details # EmptyDetails
    /\ call.network_type \notin supported_pt_network_types
    /\ call.op = "none"
    /\ call.port \in DOMAIN files
    /\ call.port \in DOMAIN int_fip_alloc[4]

====
